---- MODULE Spec2Model ----
(***************************************************************************)
(* A model of app.py, the Streamlit script of the AI Insight Synthesizer:  *)
(* the credential check, the CSV upload form, the payload built from the   *)
(* first max_rows rows, the first model call, the single JSON repair call, *)
(* the binding to AnalysisResult, the theme cards and the markdown export. *)
(*                                                                         *)
(* Texts of the table and of the report are TLA+ strings.  A text returned *)
(* by the model service is a sequence of tokens: WS (a run of whitespace), *)
(* GARBAGE (characters that are no JSON) or the name of a JSON document.   *)
(***************************************************************************)
EXTENDS Integers, Sequences, FiniteSets, TLC

VARIABLES
    pc,         \* position of the script: boot, stopped, idle, form,
                \* first_call, repair_call, render, done, failed
    t_idx,      \* position of the loop over result.themes (1-based)
    api_key,    \* os.getenv("OPENAI_API_KEY"): <<>> is None, else <<string>>
    df,         \* the uploaded table (NoDf before an upload)
    text_col,   \* the selectbox
    max_rows,   \* the slider
    records,    \* the payload of this run
    requests,   \* the calls of client.responses.create made in this run
    resp,       \* <<>> or <<resp.output_text>>
    raw,        \* resp.output_text.strip()
    repair,     \* <<>> or <<repair.output_text>>
    out,        \* <<>> or <<the decoded JSON value>>
    result,     \* <<>> or <<AnalysisResult>>
    screen,     \* what the page shows, in the order it was emitted
    md_lines,   \* the lines of the export
    md,         \* the exported markdown
    error       \* the exception that ended the run, "none" otherwise

vars == <<pc, t_idx, api_key, df, text_col, max_rows, records, requests, resp, raw,
          repair, out, result, screen, md_lines, md, error>>

-----------------------------------------------------------------------------
(* Bounds and program constants *)

MaxTableRows == 6

MinRows == 5
MaxRows == 50
DefaultRows == 15
MaxTextLen == 2000

Min(a, b) == IF a <= b THEN a ELSE b

RECURSIVE Rep(_, _)
Rep(c, n) ==
    IF n = 0 THEN ""
    ELSE IF n % 2 = 0 THEN LET h == Rep(c, n \div 2) IN h \o h
    ELSE c \o Rep(c, n - 1)

-----------------------------------------------------------------------------
(* The uploaded table: pd.read_csv gives columns, a RangeIndex 0..n-1 and   *)
(* cells that are strings, integers or NaN.                                 *)

StrCell(s) == [k |-> "str", s |-> s, i |-> 0]
IntCell(i) == [k |-> "int", s |-> "", i |-> i]
NaNCell == [k |-> "nan", s |-> "", i |-> 0]

\* str(cell)
PyStr(c) ==
    CASE c.k = "str" -> c.s
      [] c.k = "int" -> ToString(c.i)
      [] OTHER -> "nan"

NoDf == [columns |-> <<>>, rows |-> <<>>]

ColumnSets == { <<"text">>, <<"rating", "text">>, <<"__row_id", "text">> }

Variants == {"short", "long"}

ShortTexts == <<"Checkout is slow", "Love the new UI", "Checkout is slow on mobile">>

\* the cell of column c in the row at position i (0-based) of a table
CellOf(variant, c, i) ==
    CASE c = "rating" -> IntCell(1 + (i % 5))
      [] c = "__row_id" -> IntCell(100 + i)
      [] OTHER ->
            IF variant = "short"
            THEN StrCell(ShortTexts[1 + (i % 3)])
            ELSE CASE i % 4 = 0 -> StrCell(Rep("a", MaxTextLen + 1))
                   [] i % 4 = 1 -> StrCell(Rep("b", MaxTextLen))
                   [] i % 4 = 2 -> NaNCell
                   [] OTHER -> StrCell(Rep("c", 2 * MaxTextLen) \o "z")

MkTable(cols, n, variant) ==
    [columns |-> cols,
     rows |-> [i \in 1..n |->
                 [c \in {cols[j] : j \in 1..Len(cols)} |-> CellOf(variant, c, i - 1)]]]

Tables == { MkTable(cols, n, v) : cols \in ColumnSets, n \in 0..MaxTableRows, v \in Variants }

RowCount(d) == Len(d.rows)

\* df.index: the labels of the rows
Index(d) == 0..(RowCount(d) - 1)

Columns(d) == { d.columns[j] : j \in 1..Len(d.columns) }

SliderValues == {MinRows, MinRows + 1, DefaultRows, MaxRows}

-----------------------------------------------------------------------------
(* Payload Builder *)

\* df.head(max_rows).copy() with sample["__row_id"] = sample.index.astype(int)
Sample(d, m) ==
    [i \in 1..Min(m, RowCount(d)) |->
        [c \in Columns(d) \cup {"__row_id"} |->
            IF c = "__row_id" THEN IntCell(i - 1) ELSE d.rows[i][c]]]

\* s[:2000]
Truncate(s) == IF Len(s) <= MaxTextLen THEN s ELSE SubSeq(s, 1, MaxTextLen)

BuildRecords(d, col, m) ==
    LET sample == Sample(d, m)
    IN [i \in 1..Len(sample) |->
          [row_id |-> sample[i]["__row_id"].i,
           text |-> Truncate(PyStr(sample[i][col]))]]

-----------------------------------------------------------------------------
(* JSON values, and the documents the model service may return *)

JStr(s) == [j |-> "string", v |-> s]
JInt(n) == [j |-> "number", v |-> n]
JArr(a) == [j |-> "array", v |-> a]
JObj(f) == [j |-> "object", v |-> f]

ThemeJ(name, summary, frequency, severity, action, ids) ==
    JObj([theme |-> JStr(name),
          summary |-> JStr(summary),
          frequency |-> JStr(frequency),
          severity |-> JStr(severity),
          recommended_action |-> JStr(action),
          cited_row_ids |-> JArr([i \in 1..Len(ids) |-> JInt(ids[i])])])

CheckoutTheme ==
    ThemeJ("Checkout performance", "Users report slow checkout.", "High", "Medium",
           "Optimize checkout path.", <<0, 2>>)

UiTheme(ids) ==
    ThemeJ("UI praise", "Users like the new UI.", "Low", "Low", "Keep the new UI.", ids)

DocNames ==
    {"DOC_EXAMPLE", "DOC_TWO", "DOC_EMPTY", "DOC_NO_THEMES", "DOC_THEMES_STR",
     "DOC_MISSING_FIELD", "DOC_BAD_IDS", "DOC_ARRAY"}

DocValue(d) ==
    CASE d = "DOC_EXAMPLE" -> JObj([themes |-> JArr(<<CheckoutTheme>>)])
      [] d = "DOC_TWO" ->
            JObj([themes |-> JArr(<<UiTheme(<<1, 0>>),
                                    ThemeJ("Mobile", "Mobile is slow.", "Medium", "High",
                                           "Profile mobile.", <<MinRows>>)>>)])
      [] d = "DOC_EMPTY" -> JObj([themes |-> JArr(<<>>)])
      [] d = "DOC_NO_THEMES" -> JObj([topics |-> JArr(<<>>)])
      [] d = "DOC_THEMES_STR" -> JObj([themes |-> JStr("none")])
      [] d = "DOC_MISSING_FIELD" ->
            JObj([themes |-> JArr(<<JObj([theme |-> JStr("Pricing"),
                                          cited_row_ids |-> JArr(<<JInt(1)>>)])>>)])
      [] d = "DOC_BAD_IDS" ->
            JObj([themes |-> JArr(<<JObj([theme |-> JStr("Pricing"),
                                          summary |-> JStr("Too expensive."),
                                          frequency |-> JStr("Low"),
                                          severity |-> JStr("Low"),
                                          recommended_action |-> JStr("Review pricing."),
                                          cited_row_ids |-> JStr("abc")])>>)])
      [] OTHER -> JArr(<<CheckoutTheme>>)

WS == "WS"
GARBAGE == "GARBAGE"

\* the texts client.responses.create may return as output_text
ModelTexts ==
    { <<d>> : d \in DocNames }
    \cup { <<WS, "DOC_EXAMPLE", WS>>, <<GARBAGE>>, <<WS, GARBAGE, WS>>,
           <<"DOC_EXAMPLE", GARBAGE>> }

RECURSIVE LStrip(_)
LStrip(s) == IF s # <<>> /\ Head(s) = WS THEN LStrip(Tail(s)) ELSE s

RECURSIVE RStrip(_)
RStrip(s) ==
    IF s # <<>> /\ s[Len(s)] = WS THEN RStrip(SubSeq(s, 1, Len(s) - 1)) ELSE s

\* str.strip()
Strip(s) == RStrip(LStrip(s))

\* json.loads(s) returns: whitespace, one document, whitespace, end of text
JsonValid(s) ==
    LET a == LStrip(s)
    IN a # <<>> /\ Head(a) \in DocNames /\ LStrip(Tail(a)) = <<>>

\* json.loads(s), for a text that decodes
JsonLoads(s) == DocValue(Head(LStrip(s)))

-----------------------------------------------------------------------------
(* Schema Binder: the pydantic models Theme and AnalysisResult *)

StrFields == {"theme", "summary", "frequency", "severity", "recommended_action"}

IsIntList(v) == v.j = "array" /\ \A i \in 1..Len(v.v) : v.v[i].j = "number"

\* Theme(**t) validates
ValidTheme(t) ==
    /\ t.j = "object"
    /\ (StrFields \cup {"cited_row_ids"}) \subseteq DOMAIN t.v
    /\ \A f \in StrFields : t.v[f].j = "string"
    /\ IsIntList(t.v.cited_row_ids)

ToTheme(t) ==
    [theme |-> t.v.theme.v,
     summary |-> t.v.summary.v,
     frequency |-> t.v.frequency.v,
     severity |-> t.v.severity.v,
     recommended_action |-> t.v.recommended_action.v,
     cited_row_ids |-> [i \in 1..Len(t.v.cited_row_ids.v) |-> t.v.cited_row_ids.v[i].v]]

\* the exception of AnalysisResult(**o), "none" when it returns
BindError(o) ==
    IF o.j # "object" THEN "TypeError"
    ELSE IF "themes" \notin DOMAIN o.v THEN "ValidationError"
    ELSE IF o.v.themes.j # "array" THEN "ValidationError"
    ELSE IF \E i \in 1..Len(o.v.themes.v) : ~ValidTheme(o.v.themes.v[i])
         THEN "ValidationError"
    ELSE "none"

\* AnalysisResult(**o), for a value that binds
AnalysisResult(o) == [themes |-> [i \in 1..Len(o.v.themes.v) |-> ToTheme(o.v.themes.v[i])]]

-----------------------------------------------------------------------------
(* Prompt Composer: the two request shapes *)

Lit(s) == [part |-> "literal", lit |-> s, data |-> <<>>, text |-> <<>>]

\* json.dumps(user)
JsonDumps(user) == [part |-> "json", lit |-> user.task, data |-> user.feedback, text |-> <<>>]

\* a model output pasted into a message
Pasted(t) == [part |-> "model_output", lit |-> "", data |-> <<>>, text |-> t]

SystemPrompt ==
    "You are a product leader. Your job is to synthesize customer feedback into actionable product insights. Be specific and avoid generic advice. Every theme must include citations to row_id values."

TaskPrompt ==
    "Cluster the feedback into 3-7 themes. For each theme: name, summary, frequency, severity, recommended_action, cited_row_ids."

SchemaPrompt ==
    "Return ONLY valid JSON. No markdown, no commentary. Schema: {\"themes\": [{\"theme\": \"\", \"summary\": \"\", \"frequency\": \"Low|Medium|High\", \"severity\": \"Low|Medium|High\", \"recommended_action\": \"\", \"cited_row_ids\": [0]}]}. cited_row_ids must be real row_id integers from the input."

FirstRequest(recs) ==
    [model |-> "gpt-4o-mini",
     input |-> << [role |-> "system", content |-> <<Lit(SystemPrompt)>>],
                  [role |-> "user",
                   content |-> <<JsonDumps([task |-> TaskPrompt, feedback |-> recs])>>],
                  [role |-> "user", content |-> <<Lit(SchemaPrompt)>>] >>]

\* RepairRequest copied from the first call: the schema message is sent again
RepairRequestResend(r) ==
    [model |-> "gpt-4o-mini",
     input |-> << [role |-> "system", content |-> <<Lit("Fix JSON.")>>],
                  [role |-> "user",
                   content |-> <<Lit("Repair this into valid JSON only:\n"), Pasted(r)>>],
                  [role |-> "user", content |-> <<Lit(SchemaPrompt)>>] >>]

RepairRequest(r) ==
    [model |-> "gpt-4o-mini",
     input |-> << [role |-> "system", content |-> <<Lit("Fix JSON.")>>],
                  [role |-> "user",
                   content |-> <<Lit("Repair this into valid JSON only:\n"), Pasted(r)>>] >>]

-----------------------------------------------------------------------------
(* Presenter / Exporter *)

El(kind, text) == [el |-> kind, text |-> text, rows |-> <<>>]

\* st.dataframe(cited[["row_id", text_col]])
Frame(rows) == [el |-> "dataframe", text |-> "", rows |-> rows]

MissingKeyMessage ==
    "Missing OPENAI_API_KEY. Create a .env file with OPENAI_API_KEY=... and restart the app."

\* what the page shows above the button once a file is uploaded
Preview == << El("subheader", "Preview"), El("preview", "") >>

ExpanderLabel(t) ==
    t.theme \o " (Freq: " \o t.frequency \o ", Sev: " \o t.severity \o ")"

CardHead(t) ==
    << El("expander", ExpanderLabel(t)),
       El("write", t.summary),
       El("markdown", "**Recommended action:** " \o t.recommended_action) >>

\* df.loc[ids, [col]] finds every label
LocFinds(d, ids) == \A i \in 1..Len(ids) : ids[i] \in Index(d)

\* df.loc[ids, [col]] with cited["row_id"] = cited.index
Loc(d, ids, col) ==
    [i \in 1..Len(ids) |-> [row_id |-> ids[i], text |-> PyStr(d.rows[ids[i] + 1][col])]]

RECURSIVE JoinStr(_, _)
\* sep.join(parts)
JoinStr(sep, parts) ==
    IF parts = <<>> THEN ""
    ELSE IF Len(parts) = 1 THEN parts[1]
    ELSE parts[1] \o sep \o JoinStr(sep, Tail(parts))

\* JoinIds with ','.join: the space is lost
JoinIdsNoSpace(ids) == JoinStr(",", [i \in 1..Len(ids) |-> ToString(ids[i])])

\* ', '.join(map(str, ids))
JoinIds(ids) == JoinStr(", ", [i \in 1..Len(ids) |-> ToString(ids[i])])

ThemeLines(t) ==
    << "## " \o t.theme,
       "- Summary: " \o t.summary,
       "- Frequency: " \o t.frequency,
       "- Severity: " \o t.severity,
       "- Recommended action: " \o t.recommended_action,
       "- Cited rows: " \o JoinIds(t.cited_row_ids) \o "\n" >>

RECURSIVE AllThemeLines(_)
AllThemeLines(ts) ==
    IF ts = <<>> THEN <<>> ELSE ThemeLines(Head(ts)) \o AllThemeLines(Tail(ts))

MdLines(res) == <<"# AI Insight Synthesizer Output\n">> \o AllThemeLines(res.themes)

-----------------------------------------------------------------------------
(* The script *)

HasKey(key) == key # <<>> /\ key[1] # ""

Keys == { <<>>, <<"">>, <<"sk-test">> }

Init ==
    /\ pc = "boot"
    /\ t_idx = 1
    /\ api_key \in Keys
    /\ df = NoDf
    /\ text_col = ""
    /\ max_rows = DefaultRows
    /\ records = <<>>
    /\ requests = <<>>
    /\ resp = <<>>
    /\ raw = <<>>
    /\ repair = <<>>
    /\ out = <<>>
    /\ result = <<>>
    /\ screen = <<>>
    /\ md_lines = <<>>
    /\ md = ""
    /\ error = "none"

\* a rerun of the script starts from a blank run
ClearRun ==
    /\ t_idx' = 1
    /\ records' = <<>>
    /\ requests' = <<>>
    /\ resp' = <<>>
    /\ raw' = <<>>
    /\ repair' = <<>>
    /\ out' = <<>>
    /\ result' = <<>>
    /\ md_lines' = <<>>
    /\ md' = ""
    /\ error' = "none"

\* Startup without st.stop(): the message is shown and the script goes on
StartupNoStop ==
    /\ pc = "boot"
    /\ pc' = "idle"
    /\ screen' = IF HasKey(api_key)
                 THEN <<El("info", "Upload a CSV to begin.")>>
                 ELSE <<El("error", MissingKeyMessage)>>
    /\ UNCHANGED <<t_idx, api_key, df, text_col, max_rows, records, requests, resp, raw,
                   repair, out, result, md_lines, md, error>>

\* api_key = os.getenv(...); if not api_key: st.error(...); st.stop()
Startup ==
    /\ pc = "boot"
    /\ IF HasKey(api_key)
       THEN /\ pc' = "idle"
            /\ screen' = <<El("info", "Upload a CSV to begin.")>>
       ELSE /\ pc' = "stopped"
            /\ screen' = <<El("error", MissingKeyMessage)>>
    /\ UNCHANGED <<t_idx, api_key, df, text_col, max_rows, records, requests, resp, raw,
                   repair, out, result, md_lines, md, error>>

\* the file uploader: df = pd.read_csv(uploaded), the preview and the widgets
Upload(d) ==
    /\ pc \in {"idle", "form", "done", "failed"}
    /\ df' = d
    /\ text_col' = d.columns[1]
    /\ max_rows' = max_rows
    /\ pc' = "form"
    /\ screen' = Preview
    /\ ClearRun
    /\ UNCHANGED api_key

\* the selectbox and the slider
Select(col, m) ==
    /\ pc \in {"form", "done", "failed"}
    /\ col \in Columns(df)
    /\ text_col' = col
    /\ max_rows' = m
    /\ pc' = "form"
    /\ screen' = Preview
    /\ ClearRun
    /\ UNCHANGED <<api_key, df>>

\* the button: the payload and the first call
Analyze ==
    /\ pc \in {"form", "done", "failed"}
    /\ records' = BuildRecords(df, text_col, max_rows)
    /\ requests' = <<FirstRequest(records')>>
    /\ pc' = "first_call"
    /\ screen' = Preview
    /\ t_idx' = 1
    /\ resp' = <<>>
    /\ raw' = <<>>
    /\ repair' = <<>>
    /\ out' = <<>>
    /\ result' = <<>>
    /\ md_lines' = <<>>
    /\ md' = ""
    /\ error' = "none"
    /\ UNCHANGED <<api_key, df, text_col, max_rows>>

\* an uncaught exception ends the run
Raise(e) ==
    /\ error' = e
    /\ pc' = "failed"
    /\ screen' = Append(screen, El("exception", e))

\* result = AnalysisResult(**o); st.success("Done"); st.subheader("Themes")
Bind(o) ==
    /\ out' = <<o>>
    /\ IF BindError(o) # "none"
       THEN /\ Raise(BindError(o))
            /\ UNCHANGED <<result, t_idx>>
       ELSE /\ result' = <<AnalysisResult(o)>>
            /\ t_idx' = 1
            /\ pc' = "render"
            /\ screen' = screen \o <<El("success", "Done"), El("subheader", "Themes")>>
            /\ UNCHANGED error

\* the first call returns t: strip, json.loads, and the repair call if that fails
FirstReturns(t) ==
    /\ pc = "first_call"
    /\ resp' = <<t>>
    /\ raw' = Strip(t)
    /\ IF JsonValid(raw')
       THEN /\ Bind(JsonLoads(raw'))
            /\ UNCHANGED requests
       ELSE /\ requests' = Append(requests, RepairRequest(raw'))
            /\ pc' = "repair_call"
            /\ UNCHANGED <<out, result, t_idx, screen, error>>
    /\ UNCHANGED <<api_key, df, text_col, max_rows, records, repair, md_lines, md>>

\* the first call raises
FirstRaises ==
    /\ pc = "first_call"
    /\ Raise("ServiceError")
    /\ UNCHANGED <<t_idx, api_key, df, text_col, max_rows, records, requests, resp, raw,
                   repair, out, result, md_lines, md>>

\* RepairReturns with the repair in a loop: a text that does not decode is sent back
RepairReturnsRetry(t) ==
    /\ pc = "repair_call"
    /\ repair' = <<t>>
    /\ IF JsonValid(t)
       THEN /\ Bind(JsonLoads(t))
            /\ UNCHANGED requests
       ELSE /\ requests' = Append(requests, RepairRequest(t))
            /\ UNCHANGED <<pc, out, result, t_idx, screen, error>>
    /\ UNCHANGED <<api_key, df, text_col, max_rows, records, resp, raw, md_lines, md>>

\* RepairReturns decoding the first text again: out = json.loads(raw)
RepairReturnsDecodesRaw(t) ==
    /\ pc = "repair_call"
    /\ repair' = <<t>>
    /\ IF JsonValid(raw)
       THEN Bind(JsonLoads(raw))
       ELSE /\ Raise("JSONDecodeError")
            /\ UNCHANGED <<out, result, t_idx>>
    /\ UNCHANGED <<api_key, df, text_col, max_rows, records, requests, resp, raw,
                   md_lines, md>>

\* RepairReturns swallowing the second failure: except JSONDecodeError: out = {"themes": []}
RepairReturnsSilentEmpty(t) ==
    /\ pc = "repair_call"
    /\ repair' = <<t>>
    /\ IF JsonValid(t)
       THEN Bind(JsonLoads(t))
       ELSE Bind(JObj([themes |-> JArr(<<>>)]))
    /\ UNCHANGED <<api_key, df, text_col, max_rows, records, requests, resp, raw,
                   md_lines, md>>

\* the repair call returns t: out = json.loads(repair.output_text)
RepairReturns(t) ==
    /\ pc = "repair_call"
    /\ repair' = <<t>>
    /\ IF JsonValid(t)
       THEN Bind(JsonLoads(t))
       ELSE /\ Raise("JSONDecodeError")
            /\ UNCHANGED <<out, result, t_idx>>
    /\ UNCHANGED <<api_key, df, text_col, max_rows, records, requests, resp, raw,
                   md_lines, md>>

\* the repair call raises
RepairRaises ==
    /\ pc = "repair_call"
    /\ Raise("ServiceError")
    /\ UNCHANGED <<t_idx, api_key, df, text_col, max_rows, records, requests, resp, raw,
                   repair, out, result, md_lines, md>>

\* one pass of the loop over result.themes: the card and its citations
RenderTheme ==
    /\ pc = "render"
    /\ t_idx <= Len(result[1].themes)
    /\ LET t == result[1].themes[t_idx]
       IN IF LocFinds(df, t.cited_row_ids)
          THEN /\ screen' = screen \o CardHead(t)
                               \o << El("markdown", "**Citations:**"),
                                     Frame(Loc(df, t.cited_row_ids, text_col)) >>
               /\ t_idx' = t_idx + 1
               /\ UNCHANGED <<pc, error>>
          ELSE /\ screen' = screen \o CardHead(t) \o <<El("exception", "KeyError")>>
               /\ error' = "KeyError"
               /\ pc' = "failed"
               /\ UNCHANGED t_idx
    /\ UNCHANGED <<api_key, df, text_col, max_rows, records, requests, resp, raw,
                   repair, out, result, md_lines, md>>

\* after the loop: the markdown and the download button
Export ==
    /\ pc = "render"
    /\ t_idx > Len(result[1].themes)
    /\ md_lines' = MdLines(result[1])
    /\ md' = JoinStr("\n", md_lines')
    /\ screen' = Append(screen, El("download_button", "insights_report.md"))
    /\ pc' = "done"
    /\ UNCHANGED <<t_idx, api_key, df, text_col, max_rows, records, requests, resp, raw,
                   repair, out, result, error>>

Next ==
    \/ Startup
    \/ \E d \in Tables : Upload(d)
    \/ \E col \in {"text", "rating", "__row_id"}, m \in SliderValues : Select(col, m)
    \/ Analyze
    \/ \E t \in ModelTexts : FirstReturns(t)
    \/ FirstRaises
    \/ \E t \in ModelTexts : RepairReturns(t)
    \/ RepairRaises
    \/ RenderTheme
    \/ Export

Spec == Init /\ [][Next]_vars

-----------------------------------------------------------------------------
(* Properties *)

RunPcs == {"first_call", "repair_call", "render", "done", "failed"}

HasEl(kind) == \E i \in 1..Len(screen) : screen[i].el = kind

\* the number of themes whose citations are on the page
CardsRendered == Cardinality({i \in 1..Len(screen) : screen[i].el = "dataframe"})

FirstInvalid == resp # <<>> /\ ~JsonValid(resp[1])

RepairValid == repair # <<>> /\ JsonValid(repair[1])

RepairInvalid == repair # <<>> /\ ~JsonValid(repair[1])

\* every id a validated result cites is a label of the uploaded table
CitationsInTable(res) ==
    \A i \in 1..Len(res.themes) :
        \A j \in 1..Len(res.themes[i].cited_row_ids) :
            res.themes[i].cited_row_ids[j] \in Index(df)

\* the row ids sent to the model: the first min(max_rows, row_count) rows
AnalyzedIds == 0..(Min(max_rows, RowCount(df)) - 1)

Roles(req) == [i \in 1..Len(req.input) |-> req.input[i].role]

HasPart(req, kind) ==
    \E i \in 1..Len(req.input) :
        \E j \in 1..Len(req.input[i].content) : req.input[i].content[j].part = kind

\* C1: a run makes at most two calls; a started run has made the first call; the
\* second (repair) call has been made exactly when the first call returned a text
\* that does not decode as JSON -- never after a service error of the first call,
\* never when the first text decodes (whatever its shape), and never a third time.
C1_CallBudget ==
    /\ Len(requests) <= 2
    /\ (pc \in RunPcs => Len(requests) >= 1)
    /\ (pc \notin RunPcs => Len(requests) = 0)
    /\ (Len(requests) = 2 <=> FirstInvalid)
    /\ (repair # <<>> => Len(requests) = 2)

C1_Witness == pc = "done" /\ Len(requests) = 2 /\ repair # <<>>

\* C2 as stated: whenever the first text does not decode and the repair text does,
\* the run is on the success path with no error.
C2_Original == (FirstInvalid /\ RepairValid) => (error = "none" /\ result # <<>>)

\* C2 as amended: whenever the first text does not decode and the repair text
\* does, the repair output is what was decoded and no JSON parse error ends the
\* run; the run is on the success path (an AnalysisResult bound, no error, and at
\* its end every theme rendered and the report offered) exactly when the decoded
\* value binds to AnalysisResult and every cited id is a row label of the table.
C2_RepairRecovers ==
    (FirstInvalid /\ RepairValid) =>
        /\ out = <<JsonLoads(repair[1])>>
        /\ error # "JSONDecodeError"
        /\ IF BindError(out[1]) = "none" /\ CitationsInTable(AnalysisResult(out[1]))
           THEN /\ error = "none"
                /\ result = <<AnalysisResult(out[1])>>
                /\ pc \in {"render", "done"}
                /\ (pc = "done" => CardsRendered = Len(result[1].themes))
           ELSE \/ pc = "failed" /\ error \in {"TypeError", "ValidationError", "KeyError"}
                \/ pc = "render" /\ error = "none"

C2_Witness ==
    /\ FirstInvalid /\ RepairValid
    /\ pc = "done"
    /\ Len(result[1].themes) >= 1
    /\ CardsRendered = Len(result[1].themes)

\* C3: when neither the first text nor the repair text decodes, the run has ended
\* in a JSON parse error: nothing was decoded or bound, and the page shows the
\* exception and no Done message, no Themes list, no theme card and no report.
C3_DoubleFailureIsFatal ==
    (FirstInvalid /\ RepairInvalid) =>
        /\ pc = "failed"
        /\ error = "JSONDecodeError"
        /\ out = <<>>
        /\ result = <<>>
        /\ HasEl("exception")
        /\ ~HasEl("success")
        /\ ~HasEl("expander")
        /\ ~HasEl("dataframe")
        /\ ~HasEl("download_button")
        /\ screen = Preview \o <<El("exception", "JSONDecodeError")>>
        /\ md_lines = <<>>
        /\ md = ""

C3_Witness == FirstInvalid /\ RepairInvalid /\ Len(requests) = 2

\* C4 as stated: whenever the decoded value does not bind to AnalysisResult, the
\* run has ended in a ValidationError and nothing was rendered.
C4_Claim ==
    (out # <<>> /\ BindError(out[1]) # "none") =>
        /\ error = "ValidationError"
        /\ pc = "failed"
        /\ ~HasEl("expander")

\* C5 as stated: no citation table on the page shows a row id outside the
\* analyzed rows (the first min(max_rows, row_count) rows).
C5_Claim ==
    \A i \in 1..Len(screen) :
        screen[i].el = "dataframe" =>
            \A j \in 1..Len(screen[i].rows) : screen[i].rows[j].row_id \in AnalyzedIds

\* C6 as stated: all themes are rendered or none is; when a citation lookup has
\* failed, no theme card and no Done message is on the page.
C6_Claim ==
    /\ (pc \in {"done", "failed"} /\ result # <<>>) =>
            CardsRendered \in {0, Len(result[1].themes)}
    /\ (pc = "failed" /\ error = "KeyError") => (~HasEl("expander") /\ ~HasEl("success"))

\* C7 as stated: the payload has min(max_rows, row_count) records in table order;
\* the i-th has row_id = its position and text = the string of the selected
\* column's cell in that row, cut to at most 2000 characters.
C7_Claim ==
    pc \in RunPcs =>
        /\ Len(records) = Min(max_rows, RowCount(df))
        /\ \A i \in 1..Len(records) :
              LET cell == PyStr(df.rows[i][text_col])
              IN /\ records[i].row_id = i - 1
                 /\ records[i].text = SubSeq(cell, 1, Min(Len(cell), MaxTextLen))

\* the first request: system persona, user task + payload, user schema constraint
IsFirstShape(req) ==
    /\ Roles(req) = <<"system", "user", "user">>
    /\ req.input[1].content = <<Lit(SystemPrompt)>>
    /\ Len(req.input[2].content) = 1
    /\ req.input[2].content[1].part = "json"
    /\ req.input[2].content[1].lit = TaskPrompt
    /\ req.input[2].content[1].data = records
    /\ req.input[3].content = <<Lit(SchemaPrompt)>>
    /\ ~HasPart(req, "model_output")

\* the repair request: system "Fix JSON.", user instruction followed by text
IsRepairShape(req, text) ==
    /\ Roles(req) = <<"system", "user">>
    /\ req.input[1].content = <<Lit("Fix JSON.")>>
    /\ Len(req.input[2].content) = 2
    /\ req.input[2].content[1].part = "literal"
    /\ req.input[2].content[2] = Pasted(text)
    /\ ~HasPart(req, "json")

\* C8 as stated: the first request has the 3-message shape, the repair request
\* the 2-message shape, and the repair request's user message carries the text
\* the first call returned.
C8_Original ==
    /\ (Len(requests) >= 1 => IsFirstShape(requests[1]))
    /\ (Len(requests) >= 2 => IsRepairShape(requests[2], resp[1]))

\* C8 as amended: the same, with the repair request's user message carrying the
\* text the first call returned stripped of leading and trailing whitespace.
C8_RequestShapes ==
    /\ (Len(requests) >= 1 => IsFirstShape(requests[1]))
    /\ (Len(requests) >= 2 => IsRepairShape(requests[2], Strip(resp[1])))
    /\ Len(requests) <= 2

C8_Witness ==
    /\ Len(requests) = 2
    /\ Len(records) >= MinRows
    /\ resp[1] # Strip(resp[1])

\* C9: without a credential (unset or empty) the script never gets past the
\* startup check: no table is read, no payload built, no call made, and once it
\* has stopped the page shows the remediation message and nothing else.
C9_NoKeyNoWork ==
    ~HasKey(api_key) =>
        /\ pc \in {"boot", "stopped"}
        /\ df = NoDf
        /\ records = <<>>
        /\ requests = <<>>
        /\ (pc = "stopped" => screen = <<El("error", MissingKeyMessage)>>)

C9_Witness == pc = "stopped" /\ api_key = <<"">>

RECURSIVE CommaList(_)
\* the ids, left to right, separated by ", "
CommaList(ids) ==
    IF Len(ids) = 0 THEN ""
    ELSE IF Len(ids) = 1 THEN ToString(ids[1])
    ELSE CommaList(SubSeq(ids, 1, Len(ids) - 1)) \o ", " \o ToString(ids[Len(ids)])

\* C10: when a run is done, the export is the title line followed by one section
\* of six lines per theme, in the order of the themes: "## <theme>", Summary,
\* Frequency, Severity, Recommended action, Cited rows, the last one listing the
\* theme's cited_row_ids in their order joined by ", "; cited_row_ids [0, 2] of
\* "Checkout performance" gives "Cited rows: 0, 2"; nothing is exported before.
C10_MarkdownSections ==
    /\ (pc = "done" =>
          LET ts == result[1].themes
          IN /\ Len(md_lines) = 1 + 6 * Len(ts)
             /\ md_lines[1] = "# AI Insight Synthesizer Output\n"
             /\ \A i \in 1..Len(ts) :
                   LET b == 6 * (i - 1) + 1
                   IN /\ md_lines[b + 1] = "## " \o ts[i].theme
                      /\ md_lines[b + 2] = "- Summary: " \o ts[i].summary
                      /\ md_lines[b + 3] = "- Frequency: " \o ts[i].frequency
                      /\ md_lines[b + 4] = "- Severity: " \o ts[i].severity
                      /\ md_lines[b + 5] = "- Recommended action: " \o ts[i].recommended_action
                      /\ md_lines[b + 6] =
                            "- Cited rows: " \o CommaList(ts[i].cited_row_ids) \o "\n"
                      /\ (ts[i].theme = "Checkout performance"
                            /\ ts[i].cited_row_ids = <<0, 2>>) =>
                               /\ md_lines[b + 1] = "## Checkout performance"
                               /\ md_lines[b + 6] = "- Cited rows: 0, 2\n"
             /\ Len(md) = (Len(md_lines) - 1)
                            + Len(md_lines[1])
                            + Len(JoinStr("", Tail(md_lines)))
             /\ HasEl("download_button"))
    /\ (pc # "done" => md_lines = <<>> /\ md = "" /\ ~HasEl("download_button"))

C10_Witness ==
    /\ pc = "done"
    /\ Len(result[1].themes) = 2
    /\ md_lines[13] = "- Cited rows: " \o ToString(MinRows) \o "\n"

====
